---- MODULE Spec2Model ----
(***************************************************************************)
(* Model of the stacker YAML engine (package yaml): the comment-aware node *)
(* tree, the $rebase annotation scanner (Processor.FindRebaseAnnotations), *)
(* RebaseAnnotation.TagWithoutDigest / UpdateTagDigest and the path based  *)
(* patcher (Patcher.SetField with recurseNodeByPath).                      *)
(*                                                                         *)
(* Go strings are sequences of one-character strings, so that the code's   *)
(* string operations (IndexByte, Split, TrimLeft, TrimSpace, HasPrefix)    *)
(* are computed the way the code computes them.  *goyaml.Node pointers are *)
(* indices into the arena `heap`; index 0 is the nil pointer.              *)
(***************************************************************************)
EXTENDS Integers, Sequences, FiniteSets, TLC

\* ------------------------------------------------------------------------
\* Bounds of the model
\* ------------------------------------------------------------------------
MaxPathLen == 2
MaxSetField == 2
MaxUpdates == 2
MaxScans == 2
MaxStrips == 1
MaxScalars == 2
MaxTagLen == 4
MaxLines == 2
MaxFiles == 2

\* ------------------------------------------------------------------------
\* Go string helpers
\* ------------------------------------------------------------------------
Nil == 0

RECURSIVE IndexByte(_, _, _)
\* strings.IndexByte(s, c), 0-based, -1 when absent; i is the 1-based cursor
IndexByte(s, c, i) ==
  IF i > Len(s) THEN -1
  ELSE IF s[i] = c THEN i - 1
  ELSE IndexByte(s, c, i + 1)

Contains(s, c) == IndexByte(s, c, 1) >= 0

RECURSIVE Split(_, _)
\* strings.Split(s, sep) for a one-character separator
Split(s, sep) ==
  LET idx == IndexByte(s, sep, 1)
  IN IF idx < 0 THEN <<s>>
     ELSE <<SubSeq(s, 1, idx)>> \o Split(SubSeq(s, idx + 2, Len(s)), sep)

RECURSIVE Join(_, _)
\* strings.Join(parts, sep)
Join(parts, sep) ==
  IF Len(parts) = 0 THEN <<>>
  ELSE IF Len(parts) = 1 THEN parts[1]
  ELSE parts[1] \o <<sep>> \o Join(Tail(parts), sep)

RECURSIVE Digits(_)
\* decimal rendering of a non-negative integer
Digits(n) ==
  LET d == <<"0", "1", "2", "3", "4", "5", "6", "7", "8", "9">>
  IN IF n < 10 THEN <<d[n + 1]>> ELSE Digits(n \div 10) \o <<d[(n % 10) + 1]>>

\* ------------------------------------------------------------------------
\* Node tree (goyaml.Node)
\* ------------------------------------------------------------------------
DocumentNode == "DocumentNode"
SequenceNode == "SequenceNode"
MappingNode == "MappingNode"
ScalarNode == "ScalarNode"
AliasNode == "AliasNode"

\* a goyaml.Node value; the zero Node has empty fields
Node(kind, content, value, tag, comment, line, column) ==
  [Kind |-> kind, Content |-> content, Value |-> value, Tag |-> tag,
   LineComment |-> comment, Line |-> line, Column |-> column]

\* &goyaml.Node{Kind: kind} / &goyaml.Node{Kind: ScalarNode, Value: v}
NewNode(kind, value) == Node(kind, <<>>, value, "", <<>>, 0, 0)

\* ------------------------------------------------------------------------
\* Trailing comments.  A comment is a sequence of tokens: the characters
\* "#", " ", "{", "}", ":", ",", a run of other text "x", a JSON literal
\* that is not a string "n", and JSON string literals JStr(s).
\* ------------------------------------------------------------------------
Tok(c) == [t |-> c, s |-> <<>>]
JStr(s) == [t |-> "str", s |-> s]

RECURSIVE TrimLeft(_, _)
\* strings.TrimLeft(comment, c)
TrimLeft(comment, c) ==
  IF Len(comment) > 0 /\ comment[1].t = c THEN TrimLeft(Tail(comment), c)
  ELSE comment

RECURSIVE TrimRight(_, _)
TrimRight(comment, c) ==
  IF Len(comment) > 0 /\ comment[Len(comment)].t = c
  THEN TrimRight(SubSeq(comment, 1, Len(comment) - 1), c)
  ELSE comment

\* strings.TrimSpace(comment)
TrimSpace(comment) == TrimRight(TrimLeft(comment, " "), " ")

HasPrefix_Always(comment, c) == TRUE

\* strings.HasPrefix(comment, "{")
HasPrefix(comment, c) == Len(comment) > 0 /\ comment[1].t = c

\* the JSON scanner skips insignificant whitespace between tokens
JSONTokens(comment) == SelectSeq(comment, LAMBDA tk : tk.t # " ")

EmptyMap == [k \in {} |-> <<>>]

RECURSIVE UnmarshalMembers(_, _, _)
\* members of a JSON object decoded into map[string]string, from token i on;
\* a later duplicate key overwrites the earlier one
UnmarshalMembers(toks, i, acc) ==
  IF i + 3 > Len(toks) \/ toks[i].t # "str" \/ toks[i + 1].t # ":"
     \/ toks[i + 2].t # "str"
  THEN [err |-> TRUE, m |-> EmptyMap]
  ELSE LET acc2 == (toks[i].s :> toks[i + 2].s) @@ acc
       IN IF toks[i + 3].t = "}"
          THEN [err |-> (i + 3 # Len(toks)), m |-> acc2]
          ELSE IF toks[i + 3].t = ","
               THEN UnmarshalMembers(toks, i + 4, acc2)
               ELSE [err |-> TRUE, m |-> EmptyMap]

\* json.Unmarshal([]byte(comment), &comAnt) with comAnt a map[string]string;
\* the text is known to begin with "{"
Unmarshal(comment) ==
  LET toks == JSONTokens(comment)
  IN IF Len(toks) >= 2 /\ toks[2].t = "}"
     THEN [err |-> (Len(toks) # 2), m |-> EmptyMap]
     ELSE UnmarshalMembers(toks, 2, EmptyMap)

\* ------------------------------------------------------------------------
\* Annotation scanner
\* ------------------------------------------------------------------------
REBASE == <<"$", "r", "e", "b", "a", "s", "e">>
NAME == <<"n", "a", "m", "e">>
TAG == <<"t", "a", "g">>

\* &RebaseAnnotation{Identifier: identifier}
NewAnnotation(identifier) ==
  [Identifier |-> identifier, Name |-> <<>>, Tag |-> <<>>,
   nameNode |-> Nil, tagNode |-> Nil]

\* entries of the multierror
ErrJSON(line) == [msg |-> "parsing JSON from annotation", line |-> line]
ErrValue(line) == [msg |-> "invalid value in $rebase annotation", line |-> line]
ErrPart(line) == [msg |-> "invalid part in $rebase annotation", line |-> line]

LookupOrCreate_AlwaysNew(annotations, identifier) ==
  (identifier :> NewAnnotation(identifier)) @@ annotations

\* the lookup-or-create of annotations[identifier]
LookupOrCreate(annotations, identifier) ==
  IF identifier \in DOMAIN annotations THEN annotations
  ELSE (identifier :> NewAnnotation(identifier)) @@ annotations

InvalidRebaseValue_AtLeastTwo(parts) == Len(parts) < 2

\* the check on strings.Split(rebaseValue, ":")
InvalidRebaseValue(parts) == Len(parts) # 2

\* the callback FindRebaseAnnotations hands to visitMappingScalarNodes,
\* applied to scalar node n in scan state st = [annotations, visitErr]
VisitScalar(h, n, st) ==
  LET node == h[n]
      comment == TrimSpace(TrimLeft(node.LineComment, "#"))
      js == Unmarshal(comment)
      rebaseValue == js.m[REBASE]
      parts == Split(rebaseValue, ":")
      identifier == parts[1]
      part == parts[2]
      anns == LookupOrCreate(st.annotations, identifier)
  IN IF node.LineComment = <<>> THEN st
     ELSE IF ~HasPrefix(comment, "{") THEN st
     ELSE IF js.err
          THEN [st EXCEPT !.visitErr = Append(@, ErrJSON(node.Line))]
     ELSE IF REBASE \notin DOMAIN js.m THEN st
     ELSE IF InvalidRebaseValue(parts)
          THEN [st EXCEPT !.visitErr = Append(@, ErrValue(node.Line))]
     ELSE IF part = NAME
          THEN [st EXCEPT !.annotations =
                  [anns EXCEPT ![identifier].Name = node.Value,
                               ![identifier].nameNode = n]]
     ELSE IF part = TAG
          THEN [st EXCEPT !.annotations =
                  [anns EXCEPT ![identifier].Tag = node.Value,
                               ![identifier].tagNode = n]]
     ELSE [annotations |-> anns,
           visitErr |-> Append(st.visitErr, ErrPart(node.Line))]

RECURSIVE visitMappingScalarNodes_AllChildren(_, _)
visitMappingScalarNodes_AllChildren(h, n) ==
  LET node == h[n]
      RECURSIVE children(_)
      children(i) ==
        IF i > Len(node.Content) THEN <<>>
        ELSE visitMappingScalarNodes_AllChildren(h, node.Content[i])
               \o children(i + 1)
  IN IF node.Kind = ScalarNode THEN <<n>> ELSE children(1)

RECURSIVE visitMappingScalarNodes(_, _)
\* the scalar nodes the visitor hands to its callback, in call order
visitMappingScalarNodes(h, n) ==
  LET node == h[n]
      RECURSIVE values(_)
      values(i) ==
        IF i > Len(node.Content) THEN <<>>
        ELSE visitMappingScalarNodes(h, node.Content[i + 1]) \o values(i + 2)
  IN IF node.Kind = DocumentNode
     THEN visitMappingScalarNodes(h, node.Content[1])
     ELSE IF node.Kind = MappingNode THEN values(1)
     ELSE IF node.Kind = ScalarNode THEN <<n>>
     ELSE <<>>

RECURSIVE ScanFrom_FailFast(_, _, _, _)
ScanFrom_FailFast(h, order, i, st) ==
  IF i > Len(order) \/ st.visitErr # <<>> THEN st
  ELSE ScanFrom_FailFast(h, order, i + 1, VisitScalar(h, order[i], st))

RECURSIVE ScanFrom(_, _, _, _)
\* the callback applied to the visited scalars in turn
ScanFrom(h, order, i, st) ==
  IF i > Len(order) THEN st
  ELSE ScanFrom(h, order, i + 1, VisitScalar(h, order[i], st))

\* the map and the error FindRebaseAnnotations has built when the visit ends
ScanState(h, root) ==
  ScanFrom(h, visitMappingScalarNodes(h, root), 1,
           [annotations |-> EmptyMap, visitErr |-> <<>>])

\* the orders in which `for _, annotation := range annotations` may deliver
\* the records: Go leaves the iteration order of a map unspecified
RangeOrders(annotations) ==
  LET ids == DOMAIN annotations
      n == Cardinality(ids)
  IN {o \in [1..n -> ids] : \A i, j \in 1..n : i # j => o[i] # o[j]}

TagWithoutDigest_OffByOne(a) ==
  LET tag == a.Tag
      idx == IndexByte(tag, "@", 1)
  IN IF idx > 0 THEN SubSeq(tag, 1, idx) ELSE tag

\* a.TagWithoutDigest()
TagWithoutDigest(a) ==
  LET tag == a.Tag
      idx == IndexByte(tag, "@", 1)
  IN IF idx >= 0 THEN SubSeq(tag, 1, idx) ELSE tag

\* goyaml's (*Node).SetString for a valid UTF-8 string without a newline
SetString(node, str) ==
  [node EXCEPT !.Kind = ScalarNode, !.Value = str, !.Tag = "!!str"]

UpdateTagDigest_NoStrip(h, a, newDigest) ==
  [h EXCEPT ![a.tagNode] = SetString(@, a.Tag \o <<"@">> \o newDigest)]

\* a.UpdateTagDigest(newDigest) with a non-nil a.tagNode
UpdateTagDigest(h, a, newDigest) ==
  [h EXCEPT ![a.tagNode] =
     SetString(@, TagWithoutDigest(a) \o <<"@">> \o newDigest)]

\* ------------------------------------------------------------------------
\* Path resolver / patcher
\* ------------------------------------------------------------------------
\* error values: wrap is the prefix fmt.Errorf("...: %w") puts before msg
NoErr == [wrap |-> "", msg |-> "", kind |-> "", line |-> 0, column |-> 0]
Err(msg) == [wrap |-> "", msg |-> msg, kind |-> "", line |-> 0, column |-> 0]
ErrAt(msg, node) ==
  [wrap |-> "", msg |-> msg, kind |-> node.Kind, line |-> node.Line,
   column |-> node.Column]

\* kindToStr
kindToStr(kind) == kind

\* yamlpath.NewPath: the paths used here are child names and "*" separated
\* by dots; an unmatched "[" is a syntax error
NewPathFails(path) == Contains(path, "[")

RECURSIVE FindFrom(_, _, _)
\* the nodes a compiled path of child / wildcard segments yields from node n
FindFrom(h, n, segs) ==
  LET node == h[n]
      RECURSIVE all(_, _)
      all(i, step) ==
        IF i > Len(node.Content) THEN <<>>
        ELSE FindFrom(h, node.Content[i], Tail(segs)) \o all(i + step, step)
      RECURSIVE child(_)
      child(i) ==
        IF i > Len(node.Content) THEN <<>>
        ELSE IF h[node.Content[i]].Value = segs[1]
             THEN FindFrom(h, node.Content[i + 1], Tail(segs))
             ELSE child(i + 2)
  IN IF Len(segs) = 0 THEN <<n>>
     ELSE IF segs[1] = <<"*">>
          THEN IF node.Kind = MappingNode THEN all(2, 2)
               ELSE IF node.Kind = SequenceNode THEN all(1, 1)
               ELSE <<>>
     ELSE IF node.Kind = MappingNode THEN child(1)
     ELSE <<>>

\* parsedPath.Find(p.node): the implicit root unwraps the document node
Find(h, n, path) ==
  FindFrom(h, IF h[n].Kind = DocumentNode THEN h[n].Content[1] ELSE n,
           Split(path, "."))

\* handleScalarNode
handleScalarNode(h, n) ==
  IF h[n].Kind # ScalarNode
  THEN [h |-> h, valueNode |-> Nil, err |-> ErrAt("expected scalar node", h[n])]
  ELSE [h |-> h, valueNode |-> n, err |-> NoErr]

\* the index of the first key of mapping n equal to key, 0 if there is none
RECURSIVE FirstKey(_, _, _, _)
FirstKey(h, n, key, i) ==
  IF i > Len(h[n].Content) THEN 0
  ELSE IF h[h[n].Content[i]].Value = key THEN i
  ELSE FirstKey(h, n, key, i + 2)

keyNode_NoValue(path) == NewNode(ScalarNode, <<>>)

\* keyNode := &goyaml.Node{Kind: goyaml.ScalarNode, Value: path[0]}
keyNode(path) == NewNode(ScalarNode, path[1])

childNode_AlwaysScalar(path) == NewNode(ScalarNode, <<>>)

\* the child created under a missing key: a mapping while segments remain,
\* otherwise an empty scalar
childNode(path) ==
  IF Len(path) > 1 THEN NewNode(MappingNode, <<>>)
  ELSE NewNode(ScalarNode, <<>>)

RECURSIVE recurseNodeByPath(_, _, _, _)
\* recurseNodeByPath with handleDocumentNode and handleMappingNode; the
\* result carries the arena after the insertions made on the way
recurseNodeByPath(h, n, path, createKeys) ==
  LET node == h[n]
      handleDocumentNode ==
        IF Len(node.Content) # 1
        THEN [h |-> h, valueNode |-> Nil,
              err |-> ErrAt("expected exactly one node in document", node)]
        ELSE IF createKeys /\ h[node.Content[1]].Kind = ScalarNode
                /\ h[node.Content[1]].Tag = "!!null"
             THEN LET m == Len(h) + 1
                      h2 == Append([h EXCEPT ![n].Content = <<m>>],
                                   NewNode(MappingNode, <<>>))
                  IN recurseNodeByPath(h2, m, path, createKeys)
             ELSE recurseNodeByPath(h, node.Content[1], path, createKeys)
      handleMappingNode ==
        LET i == FirstKey(h, n, path[1], 1)
            k == Len(h) + 1
            c == Len(h) + 2
            grown == [h EXCEPT ![n].Content = @ \o <<k, c>>]
                       \o <<keyNode(path), childNode(path)>>
        IN IF i # 0
           THEN recurseNodeByPath(h, node.Content[i + 1], Tail(path), createKeys)
           ELSE IF createKeys
                THEN IF Len(path) > 1
                     THEN recurseNodeByPath(grown, c, Tail(path), createKeys)
                     ELSE [h |-> grown, valueNode |-> c, err |-> NoErr]
                ELSE [h |-> h, valueNode |-> n, err |-> ErrAt("key not found", node)]
  IN IF node.Kind = DocumentNode THEN handleDocumentNode
     ELSE IF Len(path) = 0 THEN handleScalarNode(h, n)
     ELSE IF node.Kind = MappingNode THEN handleMappingNode
     ELSE [h |-> h, valueNode |-> Nil, err |-> ErrAt("unexpected node", node)]

\* newNode.Encode(value) on a fresh scalar node: the canonical rendering of
\* a Go string or int and its tag
Encode(value) ==
  IF value.type = "int" THEN [Value |-> Digits(value.n), Tag |-> "!!int"]
  ELSE [Value |-> value.s, Tag |-> "!!str"]

\* the part of SetField that picks valueNode: the single match of the
\* expression, or the node the creation walk ends at
resolveValueNode(h, root, path, createKeys) ==
  LET matchedNodes == Find(h, root, path)
      created == recurseNodeByPath(h, root, Split(path, "."), TRUE)
  IN IF Len(matchedNodes) = 0
     THEN IF createKeys
          THEN IF created.err # NoErr
               THEN [created EXCEPT !.err.wrap = "creating path"]
               ELSE created
          ELSE [h |-> h, valueNode |-> Nil, err |-> Err("no nodes matched path")]
     ELSE IF Len(matchedNodes) > 1
          THEN [h |-> h, valueNode |-> Nil,
                err |-> Err("multiple nodes matched path")]
          ELSE [h |-> h, valueNode |-> matchedNodes[1], err |-> NoErr]

SetField_OverwritesNode(h, root, path, value, createKeys) ==
  LET resolved == resolveValueNode(h, root, path, createKeys)
      h2 == resolved.h
      v == resolved.valueNode
      newNode == Encode(value)
  IN IF NewPathFails(path) THEN [h |-> h, err |-> Err("parsing path")]
     ELSE IF resolved.err # NoErr THEN [h |-> h2, err |-> resolved.err]
     ELSE [h |-> [h2 EXCEPT ![v].Kind = ScalarNode, ![v].Content = <<>>,
                            ![v].Value = newNode.Value, ![v].Tag = newNode.Tag],
           err |-> NoErr]

SetField_MovesSiblings(h, root, path, value, createKeys) ==
  LET resolved == resolveValueNode(h, root, path, createKeys)
      h2 == resolved.h
      v == resolved.valueNode
      newNode == Encode(value)
      set == [h2 EXCEPT ![v].Value = newNode.Value, ![v].Tag = newNode.Tag]
      grown == {n \in 1..Len(h) : Len(set[n].Content) > Len(h[n].Content)}
      m == CHOOSE n \in grown : TRUE
      old == h[m].Content
      moved == [set EXCEPT ![m].Content =
                  [i \in 1..Len(@) |->
                     IF i <= Len(old) THEN Len(set) + i ELSE @[i]]]
                 \o [i \in 1..Len(old) |-> set[old[i]]]
  IN IF NewPathFails(path) THEN [h |-> h, err |-> Err("parsing path")]
     ELSE IF resolved.err # NoErr THEN [h |-> h2, err |-> resolved.err]
     ELSE IF h2[v].Kind # ScalarNode
          THEN [h |-> h2, err |-> ErrAt("expected scalar node", h2[v])]
     ELSE [h |-> IF grown = {} THEN set ELSE moved, err |-> NoErr]

SetField_ValueOnly(h, root, path, value, createKeys) ==
  LET resolved == resolveValueNode(h, root, path, createKeys)
      h2 == resolved.h
      v == resolved.valueNode
  IN IF NewPathFails(path) THEN [h |-> h, err |-> Err("parsing path")]
     ELSE IF resolved.err # NoErr THEN [h |-> h2, err |-> resolved.err]
     ELSE IF h2[v].Kind # ScalarNode
          THEN [h |-> h2, err |-> ErrAt("expected scalar node", h2[v])]
     ELSE [h |-> [h2 EXCEPT ![v].Value = Encode(value).Value], err |-> NoErr]

\* Patcher.SetField: the arena and the error it leaves
SetField(h, root, path, value, createKeys) ==
  LET resolved == resolveValueNode(h, root, path, createKeys)
      h2 == resolved.h
      v == resolved.valueNode
      newNode == Encode(value)
  IN IF NewPathFails(path) THEN [h |-> h, err |-> Err("parsing path")]
     ELSE IF resolved.err # NoErr THEN [h |-> h2, err |-> resolved.err]
     ELSE IF h2[v].Kind # ScalarNode
          THEN [h |-> h2, err |-> ErrAt("expected scalar node", h2[v])]
     ELSE [h |-> [h2 EXCEPT ![v].Value = newNode.Value, ![v].Tag = newNode.Tag],
           err |-> NoErr]

\* ------------------------------------------------------------------------
\* Documents: the trees NewProcessor / NewPatcher decode
\* ------------------------------------------------------------------------
Root == 1

Doc(child) == Node(DocumentNode, <<child>>, <<>>, "", <<>>, 1, 1)
Map(content, line, column) ==
  Node(MappingNode, content, <<>>, "!!map", <<>>, line, column)
List(content, line, column) ==
  Node(SequenceNode, content, <<>>, "!!seq", <<>>, line, column)
Key(k, line, column) == Node(ScalarNode, <<>>, k, "!!str", <<>>, line, column)
Str(v, comment, line, column) ==
  Node(ScalarNode, <<>>, v, "!!str", comment, line, column)

\* # {"$rebase": "<v>"}
Ann(v) ==
  <<Tok("#"), Tok(" "), Tok("{"), JStr(REBASE), Tok(":"), Tok(" "), JStr(v),
    Tok("}")>>
IdPart(id, part) == Join(<<id, part>>, ":")
P == <<"p">>
Q == <<"q">>
PName == Ann(IdPart(P, NAME))
PTag == Ann(IdPart(P, TAG))
QName == Ann(IdPart(Q, NAME))
QTag == Ann(IdPart(Q, TAG))
\* # hey
Plain == <<Tok("#"), Tok(" "), Tok("x")>>
\* # {"$rebase": "p:name",}
BadJSON ==
  <<Tok("#"), Tok(" "), Tok("{"), JStr(REBASE), Tok(":"), Tok(" "),
    JStr(IdPart(P, NAME)), Tok(","), Tok("}")>>
\* # {"$rebase": 1}
NotAString ==
  <<Tok("#"), Tok(" "), Tok("{"), JStr(REBASE), Tok(":"), Tok(" "), Tok("n"),
    Tok("}")>>
\* # {"$other": "p:name"}
NoRebase ==
  <<Tok("#"), Tok(" "), Tok("{"), JStr(<<"$", "o">>), Tok(":"), Tok(" "),
    JStr(IdPart(P, NAME)), Tok("}")>>
\* # {"k": "v", "$rebase": "q:tag"}
ExtraKey ==
  <<Tok("#"), Tok(" "), Tok("{"), JStr(<<"k">>), Tok(":"), Tok(" "),
    JStr(<<"v">>), Tok(","), Tok(" "), JStr(REBASE), Tok(":"), Tok(" "),
    JStr(IdPart(Q, TAG)), Tok("}")>>
\* # {"$rebase": "p"}
NoColon == Ann(P)
\* # {"$rebase": "p:invalid"}
BadPart == Ann(IdPart(P, <<"x">>))
\* # {"$rebase": "p:tag:x"}
TwoColons == Ann(Join(<<P, TAG, <<"x">>>>, ":"))
\* # # {"$rebase": "p:tag"}
HashSpaceHash == <<Tok("#"), Tok(" ")>> \o PTag

ScanComments ==
  {<<>>, Plain, PName, PTag, QName, QTag, BadJSON, NotAString, NoRebase,
   ExtraKey, NoColon, BadPart, TwoColons, HashSpaceHash}

\* a:
\*   b: x     # c1
\* b: 1@d     # c2
TreeApp(c1, c2) ==
  <<Doc(2),
    Map(<<3, 4, 7, 8>>, 1, 1),
    Key(<<"a">>, 1, 1),
    Map(<<5, 6>>, 2, 3),
    Key(<<"b">>, 2, 3),
    Str(<<"x">>, c1, 2, 6),
    Key(<<"b">>, 3, 1),
    Str(<<"1", "@", "d">>, c2, 3, 4)>>

\* a:
\*   - y      # c3
\*   - z
\* b: {}
TreeSeq(c3) ==
  <<Doc(2),
    Map(<<3, 4, 7, 8>>, 1, 1),
    Key(<<"a">>, 1, 1),
    List(<<5, 6>>, 2, 3),
    Str(<<"y">>, c3, 2, 5),
    Str(<<"z">>, <<>>, 3, 5),
    Key(<<"b">>, 4, 1),
    Map(<<>>, 4, 4)>>

\* a: &x s
\* b: *x
TreeAlias ==
  <<Doc(2),
    Map(<<3, 4, 5, 6>>, 1, 1),
    Key(<<"a">>, 1, 1),
    Str(<<"s">>, <<>>, 1, 4),
    Key(<<"b">>, 2, 1),
    Node(AliasNode, <<>>, <<"x">>, "", <<>>, 2, 4)>>

\* a: {}
\* a: s
TreeDup ==
  <<Doc(2),
    Map(<<3, 4, 5, 6>>, 1, 1),
    Key(<<"a">>, 1, 1),
    Map(<<>>, 1, 4),
    Key(<<"a">>, 2, 1),
    Str(<<"s">>, <<>>, 2, 4)>>

\* a:         # c
\*   b: x
\* b:
\*   - y      # c
\*   - a: z   # c
\* c: *x      # c
TreeOut(c) ==
  <<Doc(2),
    Map(<<3, 4, 7, 8, 13, 14>>, 1, 1),
    Node(ScalarNode, <<>>, <<"a">>, "!!str", c, 1, 1),
    Map(<<5, 6>>, 2, 3),
    Key(<<"b">>, 2, 3),
    Str(<<"x">>, <<>>, 2, 6),
    Key(<<"b">>, 3, 1),
    List(<<9, 10>>, 4, 3),
    Str(<<"y">>, c, 4, 5),
    Map(<<11, 12>>, 5, 5),
    Key(<<"a">>, 5, 5),
    Str(<<"z">>, c, 5, 8),
    Key(<<"c">>, 6, 1),
    Node(AliasNode, <<>>, <<"x">>, "", c, 6, 4)>>

\* ~          # c
TreeNull(c) == <<Doc(2), Node(ScalarNode, <<>>, <<"~">>, "!!null", c, 1, 1)>>

\* v
TreeScalar == <<Doc(2), Str(<<"v">>, <<>>, 1, 1)>>

\* {}
TreeEmptyMap == <<Doc(2), Map(<<>>, 1, 1)>>

Trees ==
  {TreeApp(PName, PTag), TreeApp(PName, <<>>), TreeApp(PName, BadPart),
   TreeSeq(QName), TreeAlias, TreeDup, TreeNull(<<>>), TreeNull(PTag),
   TreeScalar, TreeEmptyMap}

\* the values of the scalars of a flat document, by position
SlotValues == <<<<"x">>, <<"1", "@", "d">>, <<"2">>, <<"y", "@">>>>
SlotKeys == <<<<"a">>, <<"b">>, <<"c">>, <<"d">>>>

\* a: x       # cs[1]
\* b: 1@d     # cs[2]
\* ...
TreeFlat(cs) ==
  LET n == Len(cs)
  IN <<Doc(2), Map([i \in 1..(2 * n) |-> i + 2], 1, 1)>>
     \o [i \in 1..(2 * n) |->
           IF i % 2 = 1 THEN Key(SlotKeys[(i + 1) \div 2], (i + 1) \div 2, 1)
           ELSE Str(SlotValues[i \div 2], cs[i \div 2], i \div 2, 4)]

\* ------------------------------------------------------------------------
\* Document text: block mappings of plain scalars, one "key: value # c"
\* or "key:" per line, as yaml.v3 reads and writes them
\* ------------------------------------------------------------------------
\* <indent spaces>key: value<gap spaces>comment ; value <<>> is a bare "key:"
Line(indent, key, value, gap, comment) ==
  [indent |-> indent, key |-> key, value |-> value, gap |-> gap,
   comment |-> comment]
NoText == [lines |-> <<>>, nl |-> FALSE]

Indents == {0, 2, 4}
Gaps == {1, 2}
TextComments == {Plain, PTag}
LinesAt(i) ==
  {Line(d, SlotKeys[i], <<>>, 0, <<>>) : d \in Indents}
    \cup {Line(d, SlotKeys[i], SlotValues[i], 0, <<>>) : d \in Indents}
    \cup {Line(d, SlotKeys[i], SlotValues[i], g, c) :
            d \in Indents, g \in Gaps, c \in TextComments}

\* what the decoder accepts: the first key in column one, the lines below a
\* bare "key:" indented deeper than it, every other line aligned with an
\* open mapping
Parseable(lines) ==
  /\ lines[1].indent = 0
  /\ lines[Len(lines)].value # <<>>
  /\ \A i \in 2..Len(lines) :
       IF lines[i - 1].value = <<>>
       THEN lines[i].indent > lines[i - 1].indent
       ELSE \E j \in 1..(i - 1) :
              /\ lines[j].indent = lines[i].indent
              /\ \A k \in j..(i - 1) : lines[k].indent >= lines[i].indent

Texts ==
  {[lines |-> <<>> \o ls, nl |-> nl] :
     ls \in {f \in UNION {[1..n -> UNION {LinesAt(i) : i \in 1..MaxLines}] :
                            n \in 1..MaxLines} :
               (\A i \in 1..Len(<<>> \o f) : f[i] \in LinesAt(i))
                 /\ Parseable(<<>> \o f)},
     nl \in BOOLEAN}

\* the line whose mapping holds line i; 0 is the root mapping
ParentLine(lines, i) ==
  LET above == {j \in 1..(i - 1) : lines[j].indent < lines[i].indent}
  IN IF above = {} THEN 0
     ELSE CHOOSE j \in above : \A k \in above : k <= j

\* the key and value nodes of the lines held by the mapping of line j
ContentOf(lines, j) ==
  LET ch == SelectSeq(<<>> \o [i \in 1..Len(lines) |-> i],
                      LAMBDA i : ParentLine(lines, i) = j)
  IN <<>> \o [k \in 1..(2 * Len(ch)) |->
              IF k % 2 = 1 THEN 2 * ch[(k + 1) \div 2] + 1
              ELSE 2 * ch[k \div 2] + 2]

\* NewProcessor: dec.Decode(&node); line i gives nodes 2i+1 (key) and 2i+2
NewProcessor(text) ==
  LET lines == text.lines
  IN <<Doc(2), Map(ContentOf(lines, 0), 1, lines[1].indent + 1)>>
     \o [k \in 1..(2 * Len(lines)) |->
           LET i == (k + 1) \div 2
               l == lines[i]
           IN IF k % 2 = 1 THEN Key(l.key, i, l.indent + 1)
              ELSE IF l.value = <<>>
                   THEN Map(ContentOf(lines, i), i + 1, lines[i + 1].indent + 1)
                   ELSE Str(l.value, l.comment, i, l.indent + Len(l.key) + 3)]

RECURSIVE EncodeMapping_NoComments(_, _, _)
EncodeMapping_NoComments(h, n, depth) ==
  LET node == h[n]
      RECURSIVE pairs(_)
      pairs(i) ==
        IF i > Len(node.Content) THEN <<>>
        ELSE LET k == h[node.Content[i]]
                 v == h[node.Content[i + 1]]
             IN (IF v.Kind = MappingNode /\ v.Content # <<>>
                 THEN <<Line(2 * depth, k.Value, <<>>, 0, <<>>)>>
                        \o EncodeMapping_NoComments(h, node.Content[i + 1],
                                                    depth + 1)
                 ELSE <<Line(2 * depth, k.Value,
                             IF v.Kind = MappingNode THEN <<"{", "}">>
                             ELSE v.Value, 0, <<>>)>>)
                  \o pairs(i + 2)
  IN pairs(1)

RECURSIVE EncodeMapping(_, _, _)
\* the lines the encoder writes for mapping n at nesting depth: two spaces
\* per level (SetIndent(2)), one space before a trailing comment
EncodeMapping(h, n, depth) ==
  LET node == h[n]
      gap(c) == IF c = <<>> THEN 0 ELSE 1
      RECURSIVE pairs(_)
      pairs(i) ==
        IF i > Len(node.Content) THEN <<>>
        ELSE LET k == h[node.Content[i]]
                 v == h[node.Content[i + 1]]
             IN (IF v.Kind = MappingNode /\ v.Content # <<>>
                 THEN <<Line(2 * depth, k.Value, <<>>, gap(k.LineComment),
                             k.LineComment)>>
                        \o EncodeMapping(h, node.Content[i + 1], depth + 1)
                 ELSE <<Line(2 * depth, k.Value,
                             IF v.Kind = MappingNode THEN <<"{", "}">>
                             ELSE v.Value,
                             gap(v.LineComment), v.LineComment)>>)
                  \o pairs(i + 2)
  IN pairs(1)

\* Processor.Encode: the text written; it always ends with a newline
ProcessorEncode(h) ==
  [lines |-> EncodeMapping(h, h[Root].Content[1], 0), nl |-> TRUE]

\* ------------------------------------------------------------------------
\* State
\* ------------------------------------------------------------------------
VARIABLES
  heap,         \* the arena of goyaml.Node values; heap[Root] is p.node
  annotations,  \* the []RebaseAnnotation the caller holds
  visitErr,     \* the error the last scan returned (<<>> is nil)
  ret,          \* the error the last SetField returned (NoErr is nil)
  out,          \* the string the last TagWithoutDigest returned
  call,         \* the last call made and its arguments
  panicked,     \* a nil pointer dereference has stopped the program
  used,         \* calls made so far, by operation
  doc,          \* the text read by NewProcessor and the text Encode wrote
  cli           \* the command: the files, the walk and the errors collected

vars ==
  <<heap, annotations, visitErr, ret, out, call, panicked, used, doc, cli>>

\* inputs
\* "a.b.c"
ExamplePath == <<"a", ".", "b", ".", "c">>
Segs == {<<"a">>, <<"b">>, <<"*">>}
Paths ==
  {Join(segs, ".") : segs \in UNION {[1..n -> Segs] : n \in 1..MaxPathLen}}
    \cup {<<"[">>, ExamplePath}
StringValue == [type |-> "string", s |-> <<"v">>, n |-> 0]
IntValue == [type |-> "int", s |-> <<>>, n |-> 17]
Values == {IntValue}
Digests == {<<"e">>, <<"f">>}
TagChars == {"1", "@", "d"}
TagStrings == UNION {[1..n -> TagChars] : n \in 0..MaxTagLen}

NoCall ==
  [op |-> "", path |-> <<>>, value |-> StringValue, createKeys |-> FALSE,
   idx |-> 0, digest |-> <<>>]

NoDoc == [input |-> NoText, output |-> NoText, encoded |-> FALSE]

\* the command is not running
NoCLI ==
  [pc |-> "off", files |-> <<>>, fi |-> 0, ai |-> 0, fileErr |-> <<>>,
   didRebaseAny |-> FALSE, rebaseErr |-> <<>>, returned |-> <<>>,
   walkFailed |-> FALSE, last |-> ""]

Fresh(h, anns) ==
  /\ doc = NoDoc
  /\ cli = NoCLI
  /\ heap = h
  /\ annotations = anns
  /\ visitErr = <<>>
  /\ ret = NoErr
  /\ out = <<>>
  /\ call = NoCall
  /\ panicked = FALSE
  /\ used = [set |-> 0, upd |-> 0, scan |-> 0, strip |-> 0]

\* a decoded document, nothing called yet
Init == \E h \in Trees : Fresh(h, <<>>)

\* flat and nested documents with every combination of trailing comments
InitScan ==
  \/ \E n \in 1..MaxScalars : \E cs \in [1..n -> ScanComments] :
       Fresh(TreeFlat(<<>> \o cs), <<>>)
  \/ \E c1 \in ScanComments, c2 \in ScanComments : Fresh(TreeApp(c1, c2), <<>>)
  \/ \E c3 \in ScanComments : Fresh(TreeSeq(c3), <<>>)
  \/ \E c \in ScanComments : Fresh(TreeOut(c), <<>>)

\* a document read from text, nothing called yet
InitText ==
  \E text \in Texts :
    /\ doc = [NoDoc EXCEPT !.input = text]
    /\ cli = NoCLI
    /\ heap = NewProcessor(text)
    /\ annotations = <<>>
    /\ visitErr = <<>>
    /\ ret = NoErr
    /\ out = <<>>
    /\ call = NoCall
    /\ panicked = FALSE
    /\ used = [set |-> 0, upd |-> 0, scan |-> 0, strip |-> 0]

\* the YAML files of the directory: two complete annotations, a scan
\* error, a name without a tag, no annotation
CLIFiles ==
  {TreeFlat(<<PName, PTag, QName, QTag>>), TreeFlat(<<PName, BadPart>>),
   TreeFlat(<<PName>>), TreeFlat(<<Plain>>)}

\* app.Action entered with a directory of YAML files, no file opened yet
InitCLI ==
  \E n \in 1..MaxFiles : \E fs \in [1..n -> CLIFiles] :
    /\ cli = [NoCLI EXCEPT !.pc = "walk", !.files = <<>> \o fs]
    /\ doc = NoDoc
    /\ heap = <<>>
    /\ annotations = <<>>
    /\ visitErr = <<>>
    /\ ret = NoErr
    /\ out = <<>>
    /\ call = NoCall
    /\ panicked = FALSE
    /\ used = [set |-> 0, upd |-> 0, scan |-> 0, strip |-> 0]

\* a RebaseAnnotation literal as in TestRebaseAnnotation_TagWithoutDigest
InitTag ==
  \E t \in TagStrings :
    Fresh(TreeEmptyMap, <<[NewAnnotation(P) EXCEPT !.Tag = <<>> \o t]>>)

\* ------------------------------------------------------------------------
\* Operations
\* ------------------------------------------------------------------------
\* err := patcher.SetField(path, value, createKeys)
SetFieldStep ==
  /\ ~panicked
  /\ used.set < MaxSetField
  /\ \E path \in Paths, value \in Values, createKeys \in BOOLEAN :
       LET r == SetField(heap, Root, path, value, createKeys)
       IN /\ heap' = r.h
          /\ ret' = r.err
          /\ call' = [NoCall EXCEPT !.op = "SetField", !.path = path,
                        !.value = value, !.createKeys = createKeys]
  /\ used' = [used EXCEPT !.set = @ + 1]
  /\ UNCHANGED <<annotations, visitErr, out, panicked, doc, cli>>

\* annotations, err := processor.FindRebaseAnnotations()
ScanStep ==
  /\ ~panicked
  /\ used.scan < MaxScans
  /\ LET st == ScanState(heap, Root)
     IN /\ \E o \in RangeOrders(st.annotations) :
             annotations' = <<>> \o [i \in 1..Len(<<>> \o o) |-> st.annotations[o[i]]]
        /\ visitErr' = st.visitErr
  /\ call' = [NoCall EXCEPT !.op = "Scan"]
  /\ used' = [used EXCEPT !.scan = @ + 1]
  /\ UNCHANGED <<heap, ret, out, panicked, doc, cli>>

\* annotations[idx].UpdateTagDigest(digest)
UpdateTagDigestStep ==
  /\ ~panicked
  /\ used.upd < MaxUpdates
  /\ \E idx \in 1..Len(annotations), digest \in Digests :
       LET a == annotations[idx]
       IN /\ IF a.tagNode = Nil
             THEN /\ panicked' = TRUE
                  /\ heap' = heap
             ELSE /\ panicked' = FALSE
                  /\ heap' = UpdateTagDigest(heap, a, digest)
          /\ call' = [NoCall EXCEPT !.op = "UpdateTagDigest", !.idx = idx,
                        !.digest = digest]
  /\ used' = [used EXCEPT !.upd = @ + 1]
  /\ UNCHANGED <<annotations, visitErr, ret, out, doc, cli>>

\* annotations[idx].TagWithoutDigest()
TagWithoutDigestStep ==
  /\ ~panicked
  /\ used.strip < MaxStrips
  /\ \E idx \in 1..Len(annotations) :
       /\ out' = TagWithoutDigest(annotations[idx])
       /\ call' = [NoCall EXCEPT !.op = "TagWithoutDigest", !.idx = idx]
  /\ used' = [used EXCEPT !.strip = @ + 1]
  /\ UNCHANGED <<heap, annotations, visitErr, ret, panicked, doc, cli>>

\* err := processor.Encode(&sb)
EncodeStep ==
  /\ ~panicked
  /\ doc' = [doc EXCEPT !.output = ProcessorEncode(heap), !.encoded = TRUE]
  /\ call' = [NoCall EXCEPT !.op = "Encode"]
  /\ UNCHANGED <<heap, annotations, visitErr, ret, out, panicked, used, cli>>

\* an error of the command: the message and the annotation it is about
CLIErr(msg, id) == [msg |-> msg, id |-> id]

\* rebaseErr = multierror.Append(rebaseErr, "processing <file>: <err>")
AppendProcessing(rebaseErr, file, err) ==
  IF err = <<>> THEN rebaseErr
  ELSE Append(rebaseErr, [file |-> file, errs |-> err])

\* the Walk callback on the next YAML file, and processRebaseAnnotations
\* up to its loop: open, decode, scan
WalkFileStep ==
  /\ ~panicked
  /\ cli.pc = "walk"
  /\ cli.fi < Len(cli.files)
  /\ LET f == cli.fi + 1
         st == ScanState(cli.files[f], Root)
         failed(msg) ==
           [cli EXCEPT !.fi = f, !.last = msg,
                       !.rebaseErr =
                          AppendProcessing(@, f, <<CLIErr(msg, <<>>)>>)]
     IN \E io \in {"ok", "opening file", "opening YAML"} :
          IF io # "ok"
          THEN /\ cli' = failed(io)
               /\ UNCHANGED <<heap, annotations, visitErr>>
          ELSE /\ heap' = cli.files[f]
               /\ visitErr' = st.visitErr
               /\ IF st.visitErr # <<>>
                  THEN /\ cli' = failed("finding rebase annotations")
                       /\ annotations' = <<>>
                  ELSE /\ cli' = [cli EXCEPT !.pc = "loop", !.fi = f, !.ai = 0,
                                             !.fileErr = <<>>,
                                             !.didRebaseAny = FALSE,
                                             !.last = "ok"]
                       /\ \E o \in RangeOrders(st.annotations) :
                            annotations' =
                              <<>> \o [i \in 1..Len(<<>> \o o) |->
                                         st.annotations[o[i]]]
  /\ UNCHANGED <<ret, out, call, panicked, used, doc>>

\* one iteration of the loop over the annotations: processRebaseAnnotation
\* fails, finds nothing to do, or pushes a rebased image with a new digest
RebaseStep ==
  /\ ~panicked
  /\ cli.pc = "loop"
  /\ cli.ai < Len(annotations)
  /\ LET a == annotations[cli.ai + 1]
     IN \/ /\ cli' = [cli EXCEPT !.ai = @ + 1, !.last = "error",
                                  !.fileErr =
                                     Append(@, CLIErr("rebasing image",
                                                      a.Identifier))]
           /\ UNCHANGED <<heap, panicked>>
        \/ /\ cli' = [cli EXCEPT !.ai = @ + 1, !.last = "no-op"]
           /\ UNCHANGED <<heap, panicked>>
        \/ \E newDigest \in Digests :
             /\ cli' = [cli EXCEPT !.ai = @ + 1, !.last = "rebased",
                                    !.didRebaseAny = TRUE]
             /\ IF a.tagNode = Nil
                THEN /\ panicked' = TRUE
                     /\ heap' = heap
                ELSE /\ panicked' = FALSE
                     /\ heap' = UpdateTagDigest(heap, a, newDigest)
  /\ UNCHANGED <<annotations, visitErr, ret, out, call, used, doc>>

\* the end of processRebaseAnnotations and of the callback: the file is
\* written back if a digest changed, and the error returned is recorded
WriteBackStep ==
  /\ ~panicked
  /\ cli.pc = "loop"
  /\ cli.ai = Len(annotations)
  /\ \E io \in {"ok", "truncating file", "seeking to beginning of file",
                 "encoding YAML back to file"} :
       /\ ~cli.didRebaseAny => io = "ok"
       /\ LET err == IF io = "ok" THEN cli.fileErr ELSE <<CLIErr(io, <<>>)>>
              written == IF ~cli.didRebaseAny \/ io = "truncating file"
                         THEN cli.files[cli.fi]
                         ELSE IF io = "ok" THEN heap ELSE <<>>
          IN cli' = [cli EXCEPT !.pc = "walk", !.last = io,
                                !.files[cli.fi] = written,
                                !.rebaseErr = AppendProcessing(@, cli.fi, err)]
  /\ UNCHANGED <<heap, annotations, visitErr, ret, out, call, panicked, used,
                 doc>>

\* filepath.Walk returns, with or without an error of its own, and
\* app.Action returns the aggregated error
ActionReturnStep ==
  /\ ~panicked
  /\ cli.pc = "walk"
  /\ \E walkErr \in BOOLEAN :
       /\ cli.fi < Len(cli.files) => walkErr
       /\ cli' = [cli EXCEPT
                    !.pc = "done", !.walkFailed = walkErr,
                    !.last = IF walkErr THEN "walking directory" ELSE "ok",
                    !.returned =
                       IF walkErr
                       THEN Append(cli.rebaseErr,
                                   [file |-> 0,
                                    errs |-> <<CLIErr("walking directory",
                                                      <<>>)>>])
                       ELSE cli.rebaseErr]
  /\ UNCHANGED <<heap, annotations, visitErr, ret, out, call, panicked, used,
                 doc>>

Next ==
  \/ SetFieldStep
  \/ ScanStep
  \/ UpdateTagDigestStep
  \/ TagWithoutDigestStep

Spec == Init /\ [][Next]_vars

NextScan ==
  \/ ScanStep
  \/ UpdateTagDigestStep
  \/ TagWithoutDigestStep

SpecScan == InitScan /\ [][NextScan]_vars

NextCLI ==
  \/ WalkFileStep
  \/ RebaseStep
  \/ WriteBackStep
  \/ ActionReturnStep

SpecCLI == InitCLI /\ [][NextCLI]_vars

NextText ==
  \/ ScanStep
  \/ EncodeStep

SpecText == InitText /\ [][NextText]_vars

NextTag == TagWithoutDigestStep

SpecTag == InitTag /\ [][NextTag]_vars

\* ------------------------------------------------------------------------
\* Vocabulary of the properties
\* ------------------------------------------------------------------------
\* the value node paired with the first key of mapping n equal to key
ChildByKey(h, n, key) ==
  LET node == h[n]
      hits == {i \in 1..Len(node.Content) :
                 i % 2 = 1 /\ h[node.Content[i]].Value = key}
  IN IF n = Nil \/ node.Kind # MappingNode \/ hits = {} THEN Nil
     ELSE node.Content[(CHOOSE i \in hits : \A j \in hits : i <= j) + 1]

RECURSIVE Walk(_, _, _)
\* the node the keys segs lead to from n by first match, Nil if none
Walk(h, n, segs) ==
  IF n = Nil THEN Nil
  ELSE IF Len(segs) = 0 THEN n
  ELSE Walk(h, ChildByKey(h, n, segs[1]), Tail(segs))

\* the segments of segs that already exist below n
Found(h, n, segs) ==
  LET ok == {j \in 0..Len(segs) : Walk(h, n, SubSeq(segs, 1, j)) # Nil}
  IN CHOOSE j \in ok : \A k \in ok : k <= j

IsPrefix(s, t) == Len(s) <= Len(t) /\ SubSeq(t, 1, Len(s)) = s

\* the text and tag a value is rendered to
ExpectedText(value) == IF value = IntValue THEN <<"1", "7">> ELSE value.s
ExpectedTag(value) == IF value = IntValue THEN "!!int" ELSE "!!str"

\* ------------------------------------------------------------------------
\* C1  A SetField call that returns an error applies no mutation: the arena
\* (kinds, child lists, values, tags, comments) is the same before and
\* after the call, with and without createKeys; a call whose expression
\* matches nothing without createKeys and a call whose expression matches
\* several nodes fail with two different errors.
\* ------------------------------------------------------------------------
C1_FailedSetFieldLeavesTree ==
  [][call'.op = "SetField" =>
       LET matched == Len(Find(heap, Root, call'.path))
       IN /\ ret' # NoErr => heap' = heap
          /\ (matched = 0 /\ ~call'.createKeys /\ ~NewPathFails(call'.path))
               => ret' = Err("no nodes matched path")
          /\ matched > 1 => ret' = Err("multiple nodes matched path")
          /\ Err("no nodes matched path") # Err("multiple nodes matched path")
    ]_vars

\* a creation walk has failed on a node that is not a mapping
C1_Witness ==
  /\ call.op = "SetField"
  /\ call.createKeys
  /\ ret.wrap = "creating path"
  /\ ret.msg = "unexpected node"
  /\ ret.kind = SequenceNode

\* ------------------------------------------------------------------------
\* C2  When the expression matches exactly one node and it is a scalar,
\* SetField succeeds and changes only that node's Value and Tag: kind,
\* comment, position and children are kept, no node is added or removed and
\* every other node is unchanged, whatever createKeys is.
\* ------------------------------------------------------------------------
C2_SingleScalarMatchFrame ==
  [][call'.op = "SetField" =>
       LET matched == Find(heap, Root, call'.path)
           m == matched[1]
       IN (Len(matched) = 1 /\ heap[m].Kind = ScalarNode) =>
            /\ ret' = NoErr
            /\ Len(heap') = Len(heap)
            /\ \A n \in 1..Len(heap) : n # m => heap'[n] = heap[n]
            /\ heap'[m] = [heap[m] EXCEPT !.Value = ExpectedText(call'.value),
                                          !.Tag = ExpectedTag(call'.value)]
    ]_vars

\* "a.b" has been set in the app document, with createKeys
C2_Witness ==
  /\ call.op = "SetField"
  /\ call.path = <<"a", ".", "b">>
  /\ call.createKeys
  /\ ret = NoErr
  /\ heap = [TreeApp(PName, PTag) EXCEPT ![6].Value = <<"1", "7">>,
                                        ![6].Tag = "!!int"]

\* ------------------------------------------------------------------------
\* C3  SetField with createKeys whose expression matches nothing walks the
\* dot-separated keys from the root: a null root is first replaced by an
\* empty mapping; existing segments are descended by first match and their
\* nodes reused; every missing segment appends exactly one key node and one
\* child at the end of the current mapping (a mapping while segments
\* remain, an empty scalar for the last), the pairs already there keep
\* their place; the node reached gets the encoded value.
\* ------------------------------------------------------------------------
C3_CreationWalk ==
  [][(/\ call'.op = "SetField"
      /\ call'.createKeys
      /\ ~NewPathFails(call'.path)
      /\ Len(Find(heap, Root, call'.path)) = 0
      /\ ret' = NoErr) =>
       LET segs == Split(call'.path, ".")
           old == Len(heap)
           top == heap[Root].Content[1]
           nullRoot == heap[top].Kind = ScalarNode /\ heap[top].Tag = "!!null"
           top2 == heap'[Root].Content[1]
           found == IF nullRoot THEN 0 ELSE Found(heap, top, segs)
           at(j) == Walk(heap', top2, SubSeq(segs, 1, j))
           target == at(Len(segs))
       IN /\ Len(heap') = old + 2 * (Len(segs) - found)
                            + (IF nullRoot THEN 1 ELSE 0)
          /\ IF nullRoot
             THEN /\ top2 = old + 1
                  /\ heap'[Root] = [heap[Root] EXCEPT !.Content = <<top2>>]
                  /\ heap'[top] = heap[top]
             ELSE /\ top2 = top
                  /\ heap'[Root] = heap[Root]
          \* the existing segments are the nodes the walk found before
          /\ \A j \in 0..found :
               ~nullRoot => at(j) = Walk(heap, top, SubSeq(segs, 1, j))
          \* one key and one child appended per missing segment
          /\ \A j \in (found + 1)..Len(segs) :
               LET parent == heap'[at(j - 1)]
                   n == Len(parent.Content)
               IN /\ at(j) > old
                  /\ parent.Kind = MappingNode
                  /\ parent.Content[n] = at(j)
                  /\ heap'[parent.Content[n - 1]] = NewNode(ScalarNode, segs[j])
                  /\ parent.Content[n - 1] > old
                  /\ heap'[at(j)].Kind =
                       IF j < Len(segs) THEN MappingNode ELSE ScalarNode
                  /\ heap'[at(j)].LineComment = <<>>
          \* the final node holds the encoded value
          /\ heap'[target].Kind = ScalarNode
          /\ heap'[target].Value = ExpectedText(call'.value)
          /\ heap'[target].Tag = ExpectedTag(call'.value)
          /\ heap'[target].Content = <<>>
          \* nothing else changes; only the mapping grown gets two children
          /\ \A n \in 2..old :
               \/ heap'[n] = heap[n]
               \/ /\ n = target
                  /\ heap'[n] = [heap[n] EXCEPT !.Value = heap'[n].Value,
                                                !.Tag = heap'[n].Tag]
               \/ /\ found < Len(segs)
                  /\ n = at(found)
                  /\ heap[n].Kind = MappingNode
                  /\ IsPrefix(heap[n].Content, heap'[n].Content)
                  /\ Len(heap'[n].Content) = Len(heap[n].Content) + 2
                  /\ heap'[n] = [heap[n] EXCEPT !.Content = heap'[n].Content]
    ]_vars

\* "a.b.c" on the empty document: a root mapping, the mappings a and b and
\* the scalar leaf c holding the value
C3_Witness ==
  /\ call.op = "SetField"
  /\ call.path = ExamplePath
  /\ ret = NoErr
  /\ heap = <<Doc(3), TreeNull(<<>>)[2],
              [NewNode(MappingNode, <<>>) EXCEPT !.Content = <<4, 5>>],
              NewNode(ScalarNode, <<"a">>),
              [NewNode(MappingNode, <<>>) EXCEPT !.Content = <<6, 7>>],
              NewNode(ScalarNode, <<"b">>),
              [NewNode(MappingNode, <<>>) EXCEPT !.Content = <<8, 9>>],
              NewNode(ScalarNode, <<"c">>),
              [NewNode(ScalarNode, <<"1", "7">>) EXCEPT !.Tag = "!!int"]>>

\* ------------------------------------------------------------------------
\* Vocabulary of the scan properties
\* ------------------------------------------------------------------------
\* what a trailing comment says, read off the annotation micro-language
ExpectedClass(c) ==
  IF c = PName THEN [kind |-> "name", id |-> P]
  ELSE IF c = PTag THEN [kind |-> "tag", id |-> P]
  ELSE IF c = QName THEN [kind |-> "name", id |-> Q]
  ELSE IF c \in {QTag, ExtraKey} THEN [kind |-> "tag", id |-> Q]
  ELSE IF c \in {BadJSON, NotAString, NoColon, BadPart, TwoColons}
       THEN [kind |-> "malformed", id |-> <<>>]
  ELSE [kind |-> "skip", id |-> <<>>]

RECURSIVE ValueChain(_, _)
\* n is the document's root value or a mapping value below mappings only
ValueChain(h, n) ==
  \/ n = h[Root].Content[1]
  \/ \E m \in 2..(n - 1) :
       /\ h[m].Kind = MappingNode
       /\ \E i \in 1..Len(h[m].Content) : i % 2 = 0 /\ h[m].Content[i] = n
       /\ ValueChain(h, m)

\* the scalars in traversal scope
Scope(h) == {n \in 2..Len(h) : h[n].Kind = ScalarNode /\ ValueChain(h, n)}

Annotated(h, kind, id) ==
  {n \in Scope(h) : ExpectedClass(h[n].LineComment) = [kind |-> kind, id |-> id]}
Malformed(h) ==
  {n \in Scope(h) : ExpectedClass(h[n].LineComment).kind = "malformed"}

\* nodes are numbered in document order: the last of a set is its maximum
Last(S) == CHOOSE n \in S : \A m \in S : m <= n

\* the record a scan owes to identifier id
ExpectedRecord(h, id) ==
  LET names == Annotated(h, "name", id)
      tags == Annotated(h, "tag", id)
  IN [Identifier |-> id,
      Name |-> IF names = {} THEN <<>> ELSE h[Last(names)].Value,
      Tag |-> IF tags = {} THEN <<>> ELSE h[Last(tags)].Value,
      nameNode |-> IF names = {} THEN Nil ELSE Last(names),
      tagNode |-> IF tags = {} THEN Nil ELSE Last(tags)]

Records == {annotations[i] : i \in 1..Len(annotations)}

\* ------------------------------------------------------------------------
\* C4  A scan groups annotations by identifier: the identifiers of the
\* returned records are pairwise distinct, and when a scalar annotated
\* <id>:name and a scalar annotated <id>:tag are both in traversal scope
\* the record of <id> has Name and Tag equal to the values of these two
\* scalars and its back-references point at them (at the last one in
\* document order where an annotation is repeated).
\* ------------------------------------------------------------------------
C4_ScanGroupsByIdentifier ==
  call.op = "Scan" =>
    /\ \A i, j \in 1..Len(annotations) :
         i # j => annotations[i].Identifier # annotations[j].Identifier
    /\ \A id \in {P, Q} :
         (Annotated(heap, "name", id) # {} /\ Annotated(heap, "tag", id) # {})
           => /\ ExpectedRecord(heap, id) \in Records
              /\ ExpectedRecord(heap, id).nameNode # Nil
              /\ ExpectedRecord(heap, id).tagNode # Nil

\* a: x # p:name, b: 1@d # p:tag scans to the single record of p
C4_Witness ==
  /\ call.op = "Scan"
  /\ heap = TreeFlat(<<PName, PTag>>)
  /\ annotations = <<[Identifier |-> P, Name |-> <<"x">>,
                      Tag |-> <<"1", "@", "d">>, nameNode |-> 4, tagNode |-> 6]>>
  /\ visitErr = <<>>

\* ------------------------------------------------------------------------
\* C5  A scan never aborts on a malformed annotation: whatever the mix and
\* order of malformed and well-formed annotations, every well-formed name
\* or tag annotation in scope is reflected in the records as if the
\* malformed ones were absent, and the error returned has one entry per
\* malformed annotation, tagged with the line of its node; it is nil when
\* there is none.
\* ------------------------------------------------------------------------
C5_ScanCollectsAllErrors ==
  call.op = "Scan" =>
    /\ Len(visitErr) = Cardinality(Malformed(heap))
    /\ \A n \in Malformed(heap) :
         \E i \in 1..Len(visitErr) : visitErr[i].line = heap[n].Line
    /\ \A i, j \in 1..Len(visitErr) :
         i < j => visitErr[i].line < visitErr[j].line
    /\ (visitErr = <<>>) <=> (Malformed(heap) = {})
    /\ \A id \in {P, Q} :
         (Annotated(heap, "name", id) \cup Annotated(heap, "tag", id) # {})
           => ExpectedRecord(heap, id) \in Records

\* a malformed annotation on line 1 and the tag of p after it on line 2
C5_Witness ==
  /\ call.op = "Scan"
  /\ heap = TreeFlat(<<BadJSON, PTag>>)
  /\ visitErr = <<ErrJSON(1)>>
  /\ annotations = <<[NewAnnotation(P) EXCEPT !.Tag = <<"1", "@", "d">>,
                                              !.tagNode = 6]>>

\* ------------------------------------------------------------------------
\* C6  Every record of a scan's result has its name part or its tag part
\* set from a scalar of the tree; an annotation with another part records
\* an error and contributes no record.
\* ------------------------------------------------------------------------
C6_RecordsHaveAPart ==
  call.op = "Scan" =>
    \A i \in 1..Len(annotations) :
      annotations[i].nameNode # Nil \/ annotations[i].tagNode # Nil

\* ------------------------------------------------------------------------
\* C7  UpdateTagDigest never faults on a record returned by a scan, a
\* record with only Name populated included.
\* ------------------------------------------------------------------------
C7_UpdateTagDigestNeverFaults ==
  call.op = "UpdateTagDigest" => ~panicked

\* ------------------------------------------------------------------------
\* C8  UpdateTagDigest(d) on a record whose tag part was found sets the tag
\* scalar to the record's Tag up to its first "@", then "@", then d: one
\* "@" only, also on a second call; the comment of the tag scalar, the name
\* scalar, every other node and the records are left as they were.
\* ------------------------------------------------------------------------
C8_UpdateTagDigestReplacesDigest ==
  [][call'.op = "UpdateTagDigest" =>
       LET a == annotations[call'.idx]
           t == a.tagNode
           d == call'.digest
           bases == {k \in 0..Len(a.Tag) :
                       /\ \A i \in 1..k : a.Tag[i] # "@"
                       /\ (k = Len(a.Tag) \/ a.Tag[k + 1] = "@")}
           base == SubSeq(a.Tag, 1, CHOOSE k \in bases : TRUE)
           new == heap'[t].Value
       IN t # Nil =>
            /\ Cardinality(bases) = 1
            /\ new = base \o <<"@">> \o d
            /\ Cardinality({i \in 1..Len(new) : new[i] = "@"}) = 1
            /\ t \in Scope(heap')
            /\ heap'[t] = [heap[t] EXCEPT !.Value = new, !.Tag = "!!str"]
            /\ heap'[t].LineComment = heap[t].LineComment
            /\ Len(heap') = Len(heap)
            /\ \A n \in 1..Len(heap) : n # t => heap'[n] = heap[n]
            /\ annotations' = annotations
    ]_vars

\* the tag 1@d of p after UpdateTagDigest("e") and then UpdateTagDigest("f")
C8_Witness ==
  /\ call.op = "UpdateTagDigest"
  /\ call.digest = <<"f">>
  /\ used.upd = 2
  /\ used.scan = 1
  /\ annotations = <<ExpectedRecord(TreeFlat(<<PName, PTag>>), P)>>
  /\ heap = [TreeFlat(<<PName, PTag>>) EXCEPT ![6].Value = <<"1", "@", "f">>]

\* ------------------------------------------------------------------------
\* C9  TagWithoutDigest returns the part of Tag before its first "@", and
\* Tag itself when it has none; the result has no "@", stripping it again
\* changes nothing, and the record is not modified.
\* ------------------------------------------------------------------------
C9_TagWithoutDigest ==
  [][call'.op = "TagWithoutDigest" =>
       LET a == annotations[call'.idx]
           tag == a.Tag
       IN /\ IsPrefix(out', tag)
          /\ \A i \in 1..Len(out') : out'[i] # "@"
          /\ Len(out') < Len(tag) => tag[Len(out') + 1] = "@"
          /\ (\A i \in 1..Len(tag) : tag[i] # "@") => out' = tag
          /\ TagWithoutDigest([a EXCEPT !.Tag = out']) = out'
          /\ tag = <<"1", "@", "d">> => out' = <<"1">>
          /\ annotations' = annotations
    ]_vars

\* a tag with two "@" is cut at the first
C9_Witness ==
  /\ call.op = "TagWithoutDigest"
  /\ annotations[1].Tag = <<"1", "@", "d", "@">>
  /\ out = <<"1">>

\* ------------------------------------------------------------------------
\* C10  A $rebase value is accepted only as identifier:part with part
\* "name" or "tag": a value without a colon, with more than one colon or
\* with another part yields an error entry tagged with the line of its node
\* and sets no Name or Tag of any record; the fields that are set come from
\* a scalar annotated for the record's identifier and that part.
\* ------------------------------------------------------------------------
C10_RebaseValueSyntax ==
  call.op = "Scan" =>
    /\ \A n \in Scope(heap) :
         LET c == heap[n].LineComment
         IN c \in {NoColon, TwoColons, BadPart} =>
              /\ (IF c = BadPart THEN ErrPart(heap[n].Line)
                  ELSE ErrValue(heap[n].Line))
                   \in {visitErr[i] : i \in 1..Len(visitErr)}
              /\ \A r \in Records : r.nameNode # n /\ r.tagNode # n
    /\ \A r \in Records :
         /\ IF r.nameNode = Nil THEN r.Name = <<>>
            ELSE /\ r.nameNode \in Annotated(heap, "name", r.Identifier)
                 /\ r.Name = heap[r.nameNode].Value
         /\ IF r.tagNode = Nil THEN r.Tag = <<>>
            ELSE /\ r.tagNode \in Annotated(heap, "tag", r.Identifier)
                 /\ r.Tag = heap[r.tagNode].Value

\* "p:tag:x" on line 1 is an error; the name of p on line 2 is recorded
C10_Witness ==
  /\ call.op = "Scan"
  /\ heap = TreeFlat(<<TwoColons, PName>>)
  /\ visitErr = <<ErrValue(1)>>
  /\ annotations = <<[NewAnnotation(P) EXCEPT !.Name = <<"1", "@", "d">>,
                                              !.nameNode = 6]>>

\* ------------------------------------------------------------------------
\* C11  Comments that are not rebase annotations are skipped without error:
\* a scalar without a trailing comment, a comment whose text after the
\* leading "#" and whitespace does not begin with "{", and an annotation
\* object without a $rebase key each give no record and no error; a tree
\* with only such scalars scans to an empty result and a nil error, and
\* other keys next to $rebase do not change the outcome.
\* ------------------------------------------------------------------------
C11_NonAnnotationsAreSkipped ==
  call.op = "Scan" =>
    LET skipped == {n \in Scope(heap) :
                      ExpectedClass(heap[n].LineComment).kind = "skip"}
        plain == [n \in 1..Len(heap) |->
                    IF heap[n].LineComment = ExtraKey
                    THEN [heap[n] EXCEPT !.LineComment = QTag] ELSE heap[n]]
        st == ScanState(<<>> \o plain, Root)
    IN /\ {<<>>, Plain, NoRebase, HashSpaceHash}
            \subseteq {c \in ScanComments : ExpectedClass(c).kind = "skip"}
       /\ \A n \in skipped :
            /\ \A r \in Records : r.nameNode # n /\ r.tagNode # n
            /\ \A i \in 1..Len(visitErr) : visitErr[i].line # heap[n].Line
       /\ skipped = Scope(heap) => (annotations = <<>> /\ visitErr = <<>>)
       /\ Records = {st.annotations[id] : id \in DOMAIN st.annotations}
       /\ visitErr = st.visitErr

\* an object without $rebase and a plain comment: nothing found, no error
C11_Witness ==
  /\ call.op = "Scan"
  /\ heap = TreeFlat(<<NoRebase, Plain>>)
  /\ annotations = <<>>
  /\ visitErr = <<>>

\* ------------------------------------------------------------------------
\* C13  Traversal scope of a scan: the scalars handed to the callback are
\* exactly the document's root value and the mapping values below mappings
\* only, each once; mapping keys, sequence elements, anything below a
\* sequence element and aliases are never inspected, so an annotation
\* there yields neither a record nor an error.
\* ------------------------------------------------------------------------
C13_TraversalScope ==
  LET order == visitMappingScalarNodes(heap, Root)
      outside == {n \in 2..Len(heap) : n \notin Scope(heap)}
  IN /\ {order[i] : i \in 1..Len(order)} = Scope(heap)
     /\ Len(order) = Cardinality(Scope(heap))
     /\ call.op = "Scan" =>
          /\ \A r \in Records :
               r.nameNode \notin outside /\ r.tagNode \notin outside
          /\ Len(visitErr) <= Cardinality(Scope(heap))
          /\ (\A n \in Scope(heap) : heap[n].LineComment = <<>>)
               => (annotations = <<>> /\ visitErr = <<>>)

\* annotations on a key, in list items and on an alias: nothing is found
C13_Witness ==
  /\ call.op = "Scan"
  /\ heap = TreeOut(PTag)
  /\ annotations = <<>>
  /\ visitErr = <<>>

\* ------------------------------------------------------------------------
\* C14  (as stated) A creation-mode SetField that inserts keys after a scan
\* invalidates the scan's back-references: a nameNode / tagNode captured
\* before the insertion is no longer a scalar of the tree.
\* ------------------------------------------------------------------------
C14_InsertionInvalidatesReferences ==
  [][(call'.op = "SetField" /\ call'.createKeys /\ Len(heap') > Len(heap)) =>
       \A r \in Records : \A n \in {r.nameNode, r.tagNode} \ {Nil} :
         n \in Scope(heap) => n \notin Scope(heap')]_vars

\* C14  (amended) A SetField call, creation-mode insertions included, leaves
\* the back-references of an earlier scan valid: a mapping's Content holds
\* pointers, so appending to it moves no node, and a captured
\* nameNode / tagNode that was a scalar of the tree still is that scalar,
\* at the same place of the same parent; a digest written through tagNode
\* afterwards is the value the tree holds. The one exception is a captured
\* null document root, which creation mode replaces by a new mapping.
C14_ReferencesSurviveInsertion ==
  [][/\ call'.op = "SetField" =>
          \A r \in Records : \A n \in {r.nameNode, r.tagNode} \ {Nil} :
            n \in Scope(heap) =>
              \/ /\ n \in Scope(heap')
                 /\ \A m \in 1..Len(heap) : \A i \in 1..Len(heap[m].Content) :
                      heap[m].Content[i] = n => heap'[m].Content[i] = n
              \/ /\ call'.createKeys
                 /\ heap[Root].Content = <<n>>
                 /\ heap[n].Tag = "!!null"
                 /\ heap'[heap'[Root].Content[1]].Kind = MappingNode
     /\ (call'.op = "UpdateTagDigest" /\ ~panicked') =>
          LET a == annotations[call'.idx]
              t == a.tagNode
          IN t \in Scope(heap) =>
               /\ t \in Scope(heap')
               /\ heap'[t].Value
                    = TagWithoutDigest(a) \o <<"@">> \o call'.digest
               /\ \A n \in 1..Len(heap) : n # t => heap'[n] = heap[n]]_vars

\* scan, insert a.a next to the annotated a.b, then write the digest
\* through the tagNode captured before the insertion
C14_Witness ==
  /\ call.op = "UpdateTagDigest"
  /\ Len(heap) = Len(TreeApp(PName, PTag)) + 2
  /\ heap[4].Content = <<5, 6, 9, 10>>
  /\ annotations = <<ExpectedRecord(TreeApp(PName, PTag), P)>>
  /\ heap[8].Value = <<"1", "@", "e">>
  /\ {6, 8} \subseteq Scope(heap)

\* ------------------------------------------------------------------------
\* C15  Tree shape: in every state reached from a decoded document by
\* SetField calls (failed or not, with or without createKeys), scans and
\* UpdateTagDigest calls, the document node has exactly one child and it
\* is not a document node, and every mapping has an even number of
\* children; no node ever changes kind, and the kind of the document's
\* child changes only when creation mode replaces a null scalar root by a
\* mapping.
\* ------------------------------------------------------------------------
C15_TreeShape ==
  /\ [](/\ heap[Root].Kind = DocumentNode
        /\ Len(heap[Root].Content) = 1
        /\ heap[heap[Root].Content[1]].Kind # DocumentNode
        /\ \A n \in 1..Len(heap) :
             heap[n].Kind = MappingNode => Len(heap[n].Content) % 2 = 0)
  /\ [][/\ Len(heap') >= Len(heap)
        /\ \A n \in 1..Len(heap) : heap'[n].Kind = heap[n].Kind
        /\ LET old == heap[Root].Content[1]
               new == heap'[Root].Content[1]
           IN heap'[new].Kind # heap[old].Kind =>
                /\ call'.op = "SetField" /\ call'.createKeys
                /\ heap[old].Kind = ScalarNode /\ heap[old].Tag = "!!null"
                /\ new > Len(heap)
                /\ heap'[new].Kind = MappingNode]_vars

\* a null root replaced by a mapping that then got a key and a nested key
C15_Witness ==
  /\ call.op = "SetField"
  /\ call.createKeys
  /\ ret = NoErr
  /\ heap[2].Tag = "!!null"
  /\ heap[Root].Content = <<3>>
  /\ heap[3].Kind = MappingNode
  /\ Len(heap[3].Content) = 2
  /\ heap[heap[3].Content[2]].Kind = MappingNode
  /\ Len(heap[heap[3].Content[2]].Content) = 2

EncoderLayout(lines) ==
  /\ lines[1].indent = 0
  /\ \A i \in 1..Len(lines) :
       /\ lines[i].value = <<>> => lines[i + 1].indent = lines[i].indent + 2
       /\ lines[i].comment # <<>> => lines[i].gap = 1

C16_ErrorIsolation ==
  /\ []((cli.pc = "done" /\ ~cli.walkFailed) =>
          /\ cli.fi = Len(cli.files)
          /\ cli.returned = cli.rebaseErr)
  /\ [][/\ (cli.pc = "walk" /\ cli'.pc = "walk" /\ cli'.last # "ok") =>
             /\ Len(cli'.rebaseErr) = Len(cli.rebaseErr) + 1
             /\ cli'.rebaseErr[Len(cli'.rebaseErr)]
                  = [file |-> cli'.fi, errs |-> <<CLIErr(cli'.last, <<>>)>>]
        /\ (cli.pc = "loop" /\ cli'.pc = "loop") =>
             /\ cli'.last = "error" =>
                  cli'.fileErr = Append(cli.fileErr,
                                        CLIErr("rebasing image",
                                               annotations[cli'.ai].Identifier))
             /\ heap' # heap => cli'.last = "rebased"
        /\ (cli.pc = "loop" /\ cli'.pc = "walk") =>
             /\ cli.ai = Len(annotations)
             /\ \A i \in 1..Len(cli.fileErr) :
                  \E j \in 1..Len(cli'.rebaseErr) :
                    /\ cli'.rebaseErr[j].file = cli.fi
                    /\ \E k \in 1..Len(cli'.rebaseErr[j].errs) :
                         cli'.rebaseErr[j].errs[k] = cli.fileErr[i]
             /\ cli'.files # cli.files => cli.didRebaseAny
        /\ \A j \in 1..Len(cli.rebaseErr) :
             /\ j <= Len(cli'.rebaseErr)
             /\ cli'.rebaseErr[j] = cli.rebaseErr[j]]_vars

====
